---- MODULE Spec2Model ----
(***************************************************************************)
(* Model of `today`: the provider resolver (src/llm.ts), the output file   *)
(* (src/file.ts), the settings (src/config.ts, src/config-manager.ts), the *)
(* model fetchers (src/model-fetcher.ts) and the main command              *)
(* (src/commands/default.ts).                                              *)
(*                                                                         *)
(* Strings the code builds by interpolation are sequences of fragments     *)
(* (<<"Ollama", " error: ", "API error">>); generated text and file        *)
(* content are sequences of characters, so that trim() is computed.  The   *)
(* JavaScript value null is NULL.  A request that is awaited is the last   *)
(* entry of its log while pc says it is in flight; its entry carries what  *)
(* the remote end does with it.                                            *)
(***************************************************************************)
EXTENDS Integers, Sequences, FiniteSets, TLC

\* ------------------------------------------------------------------ bounds
\* longest text a provider returns
MaxLen == 3
\* most entries written to one output file
MaxWrites == 3
\* most runs of the main command, one after the other
MaxRuns == 2

\* --------------------------------------------------------------- constants
NULL == "null"

Chars == {"a", " ", "\n"}
Whitespace == {" ", "\n"}

Texts == UNION {[1..n -> Chars] : n \in 0..MaxLen}

\* JavaScript truthiness of a string-or-null value
Truthy(v) == v \notin {NULL, ""}

PROVIDER_META ==
  [ollama     |-> [label |-> "ollama", displayName |-> "Ollama",
                   hasHost |-> TRUE, hasApiKey |-> FALSE,
                   defaultHost |-> "http://localhost:11434",
                   defaultModel |-> "llama3.2"],
   lmstudio   |-> [label |-> "lmstudio", displayName |-> "LM Studio",
                   hasHost |-> TRUE, hasApiKey |-> FALSE,
                   defaultHost |-> "http://localhost:1234",
                   defaultModel |-> "local-model"],
   openai     |-> [label |-> "openai", displayName |-> "OpenAI",
                   hasHost |-> FALSE, hasApiKey |-> TRUE,
                   defaultHost |-> "",
                   defaultModel |-> "gpt-4o-mini"],
   openrouter |-> [label |-> "openrouter", displayName |-> "OpenRouter",
                   hasHost |-> FALSE, hasApiKey |-> TRUE,
                   defaultHost |-> "",
                   defaultModel |-> "google/gemini-flash-1.5"]]

\* Object.keys(PROVIDER_META), in insertion order
PROVIDERS == <<"ollama", "lmstudio", "openai", "openrouter">>

Provider == {PROVIDERS[i] : i \in 1..Len(PROVIDERS)}
ProviderOrAuto == {"auto"} \cup Provider
HostProvider == {p \in Provider : PROVIDER_META[p].hasHost}
KeyProvider == {p \in Provider : PROVIDER_META[p].hasApiKey}

DEFAULT_SETTINGS ==
  [provider     |-> "auto",
   models       |-> [p \in Provider |-> PROVIDER_META[p].defaultModel],
   hosts        |-> [p \in HostProvider |-> PROVIDER_META[p].defaultHost],
   apiKeys      |-> [p \in KeyProvider |-> ""],
   outputFile   |-> "./today.txt",
   systemPrompt |-> NULL]

DEFAULT_SYSTEM_PROMPT == "Refine the user's intention into this exact format: ..."

\* DETECTION_CONFIG: an endpoint for the host-based providers, a check on the
\* settings for the key-based ones
DETECTION_CONFIG ==
  [ollama     |-> [endpoint |-> "/api/tags",  hasCheck |-> FALSE],
   lmstudio   |-> [endpoint |-> "/v1/models", hasCheck |-> FALSE],
   openai     |-> [endpoint |-> NULL,         hasCheck |-> TRUE],
   openrouter |-> [endpoint |-> NULL,         hasCheck |-> TRUE]]

\* Object.entries(DETECTION_CONFIG) visits the keys in insertion order
DetectionOrderCloudFirst == <<"openai", "openrouter", "ollama", "lmstudio">>
DetectionOrder == <<"ollama", "lmstudio", "openai", "openrouter">>

\* the check functions of DETECTION_CONFIG: (s) => !!s.apiKeys.<provider>
DetectionCheckAnyKey(p, s) == \E q \in KeyProvider : Truthy(s.apiKeys[q])
DetectionCheck(p, s) == Truthy(s.apiKeys[p])

\* ------------------------------------------------------------ the inputs
ApiKeyValues == {"", "sk-test"}
SystemPromptValues == {NULL, "", "Custom system prompt"}
UserInputs == {"Test input", "ship the release"}

SettingsValues ==
  {[DEFAULT_SETTINGS EXCEPT !.provider = p, !.apiKeys = k, !.systemPrompt = sp] :
     p \in ProviderOrAuto, k \in [KeyProvider -> ApiKeyValues],
     sp \in SystemPromptValues}

\* what the remote end does with a GET: a success status, another status, a
\* network error, or no answer at all
FetchOutcomes == {"ok", "status", "error", "silent"}

\* values generateText rejects with: Error objects and a thrown non-object
ThrownValues ==
  {[isObject |-> TRUE,  hasMessage |-> TRUE,  message |-> "API error"],
   [isObject |-> TRUE,  hasMessage |-> TRUE,  message |-> "Ollama connection failed"],
   [isObject |-> FALSE, hasMessage |-> FALSE, message |-> ""]}

NoThrow == [isObject |-> FALSE, hasMessage |-> FALSE, message |-> "none"]

GenOutcomes ==
  {[kind |-> "text", text |-> t, thrown |-> NoThrow] : t \in Texts} \cup
  {[kind |-> "throw", text |-> <<>>, thrown |-> e] : e \in ThrownValues}

\* --------------------------------------------------------- pure functions
RECURSIVE TrimStart(_)
TrimStart(t) ==
  IF t = <<>> THEN <<>>
  ELSE IF Head(t) \in Whitespace THEN TrimStart(Tail(t)) ELSE t

RECURSIVE TrimEnd(_)
TrimEnd(t) ==
  IF t = <<>> THEN <<>>
  ELSE IF t[Len(t)] \in Whitespace THEN TrimEnd(SubSeq(t, 1, Len(t) - 1)) ELSE t

\* String.prototype.trim
Trim(t) == TrimEnd(TrimStart(t))

\* formatError(error, provider)
formatErrorUnqualified(error, provider) ==
  IF error.isObject /\ error.hasMessage
  THEN <<"Error: ", error.message>>
  ELSE <<"Error: Unknown error occurred">>
formatError(error, provider) ==
  IF error.isObject /\ error.hasMessage
  THEN <<provider, " error: ", error.message>>
  ELSE <<provider, " error: Unknown error occurred">>

NO_PROVIDER_MESSAGE ==
  <<"No LLM provider available", ". Please configure a provider or check your settings.">>

\* response.ok
ResponseOkAnyStatus(outcome) == outcome \in {"ok", "status"}
ResponseOk(outcome) == outcome = "ok"

\* the request generate() hands to generateText
GenerateRequest(providerName, s, userInput) ==
  [provider |-> providerName,
   model    |-> s.models[providerName],
   system   |-> IF Truthy(s.systemPrompt) THEN s.systemPrompt
                ELSE DEFAULT_SYSTEM_PROMPT,
   prompt   |-> userInput]

\* the value tryProvider returns when generate() resolves with text
TryProviderValueDisplayName(providerName, text) ==
  [refined |-> Trim(text), provider |-> PROVIDER_META[providerName].displayName]
TryProviderValueUntrimmed(providerName, text) ==
  [refined |-> text, provider |-> PROVIDER_META[providerName].label]
TryProviderValue(providerName, text) ==
  [refined |-> Trim(text), provider |-> PROVIDER_META[providerName].label]

\* the throwOnError argument at the two call sites of tryProvider
ExplicitThrowOnErrorOff == FALSE
ExplicitThrowOnError == TRUE
AutoThrowOnErrorOn == TRUE
AutoThrowOnError == FALSE

\* detectProvider's loop from position i up to its next await or its return:
\* kind "fetch" (a GET on provider idx's endpoint is issued), "found"
\* (returns provider idx) or "none" (returns null); checked lists the
\* key-based providers whose check ran on the way
RECURSIVE DetectFrom(_, _)
DetectFrom(s, i) ==
  IF i > Len(DetectionOrder)
  THEN [kind |-> "none", idx |-> 0, checked |-> <<>>]
  ELSE LET p == DetectionOrder[i]
           config == DETECTION_CONFIG[p]
       IN IF Truthy(config.endpoint)
          THEN IF ~PROVIDER_META[p].hasHost
               THEN DetectFrom(s, i + 1)
               ELSE [kind |-> "fetch", idx |-> i, checked |-> <<>>]
          ELSE IF config.hasCheck /\ DetectionCheck(p, s)
               THEN [kind |-> "found", idx |-> i, checked |-> <<p>>]
               ELSE LET rest == DetectFrom(s, i + 1)
                    IN [rest EXCEPT !.checked = <<p>> \o rest.checked]

\* ------------------------------------------------------------- src/file.ts
\* what new Date() can be: year, getMonth() (0-based) and getDate()
Nows == {[year |-> 2026, month |-> 10, day |-> 4],
         [year |-> 2027, month |-> 0,  day |-> 15]}

DigitChars == <<"0", "1", "2", "3", "4", "5", "6", "7", "8", "9">>

\* String(n) of a non-negative integer
RECURSIVE String(_)
String(n) ==
  IF n < 10 THEN <<DigitChars[n + 1]>>
  ELSE String(n \div 10) \o <<DigitChars[(n % 10) + 1]>>

\* str.padStart(2, "0")
PadStart2(str) == IF Len(str) < 2 THEN <<"0">> \o str ELSE str

\* formatDate(): `${year}-${month}-${day}`
formatDate(now) ==
  String(now.year) \o <<"-">> \o PadStart2(String(now.month + 1)) \o <<"-">>
    \o PadStart2(String(now.day))

\* the output file: whether it exists, and its text
AbsentFile == [exists |-> FALSE, text |-> <<>>]

\* readTodayFile(outputFile)
readTodayFileEmpty(file) == <<>>
readTodayFile(file) == IF ~file.exists THEN <<>> ELSE file.text

\* `## ${date}\n${refinedText}\n\n`
NewEntry(refinedText, date) ==
  <<"#", "#", " ">> \o date \o <<"\n">> \o refinedText \o <<"\n", "\n">>

\* the content writeTodayFile hands to Bun.write
WriteContentAppend(existing, refinedText, date) ==
  IF existing # <<>> THEN existing \o NewEntry(refinedText, date)
  ELSE Trim(NewEntry(refinedText, date))
WriteContentOverwrite(existing, refinedText, date) ==
  Trim(NewEntry(refinedText, date))
WriteContent(existing, refinedText, date) ==
  IF existing # <<>> THEN NewEntry(refinedText, date) \o existing
  ELSE Trim(NewEntry(refinedText, date))

\* the file after writeTodayFile(refinedText, outputFile) at time now
writeTodayFile(file, refinedText, now) ==
  [exists |-> TRUE,
   text |-> WriteContent(readTodayFile(file), refinedText, formatDate(now))]

\* the texts generate() can return
TrimmedTexts == {Trim(t) : t \in Texts}

\* --------------------------------------------------- settings in memory
\* A Settings object in memory holds its models, hosts and apiKeys objects
\* by reference: each of the three fields names the owner whose nested
\* object it points to, and the heap holds the nested objects of each owner.
\* "default" is DEFAULT_SETTINGS, "parsed" the object file.json() returns,
\* "arg" an object built by a caller.
Owners == {"default", "parsed", "arg"}

NestedOf(s) == [models |-> s.models, hosts |-> s.hosts, apiKeys |-> s.apiKeys]

\* an object whose three nested objects are those of owner o
ObjectOf(o, s) ==
  [provider |-> s.provider, models |-> o, hosts |-> o, apiKeys |-> o,
   outputFile |-> s.outputFile, systemPrompt |-> s.systemPrompt]

\* the module-level constant DEFAULT_SETTINGS as an object
DEFAULT_SETTINGS_OBJECT == ObjectOf("default", DEFAULT_SETTINGS)

\* the value of an object: its nested objects read through the heap
Deref(h, obj) ==
  [provider     |-> obj.provider,
   models       |-> h[obj.models].models,
   hosts        |-> h[obj.hosts].hosts,
   apiKeys      |-> h[obj.apiKeys].apiKeys,
   outputFile   |-> obj.outputFile,
   systemPrompt |-> obj.systemPrompt]

\* RuntimeOverrides: provider and model, NULL when the property is absent
NoOverrides == [provider |-> NULL, model |-> NULL]

\* applyOverrides(config, overrides): the returned object and the heap
\* after the call.  { ...config } copies the references of config.
applyOverridesModelFirst(h, config, overrides) ==
  LET merged == IF Truthy(overrides.provider)
                THEN [config EXCEPT !.provider = overrides.provider]
                ELSE config
  IN [merged |-> merged,
      heap |-> IF Truthy(overrides.model) /\ config.provider # "auto"
               THEN [h EXCEPT ![config.models].models[config.provider] =
                                 overrides.model]
               ELSE h]
applyOverridesNoProvider(h, config, overrides) ==
  [merged |-> config,
   heap |-> IF Truthy(overrides.model) /\ config.provider # "auto"
            THEN [h EXCEPT ![config.models].models[config.provider] =
                              overrides.model]
            ELSE h]
applyOverrides(h, config, overrides) ==
  LET merged == IF Truthy(overrides.provider)
                THEN [config EXCEPT !.provider = overrides.provider]
                ELSE config
  IN [merged |-> merged,
      heap |-> IF Truthy(overrides.model) /\ merged.provider # "auto"
               THEN [h EXCEPT ![merged.models].models[merged.provider] =
                                 overrides.model]
               ELSE h]

\* the inputs of applyOverrides
ModelNames == {"", "custom-model"}
OverridesValues ==
  [provider : {NULL} \cup ProviderOrAuto, model : {NULL} \cup ModelNames]

ArgSettingsValues ==
  {[DEFAULT_SETTINGS EXCEPT !.provider = p, !.models["ollama"] = mo] :
     p \in ProviderOrAuto, mo \in {"llama3.2", "mistral"}}

\* ------------------------------------------------------- src/config.ts
\* the settings file: whether it exists, whether its text parses as JSON,
\* and the parsed object (a record with the top-level fields it has)
AbsentSettingsFile == [exists |-> FALSE, valid |-> FALSE, content |-> <<>>]

\* configExists()
configExistsAlways(file) == TRUE
configExists(file) == file.exists

ObjectFields == {"models", "hosts", "apiKeys"}

\* loadConfig(): the returned object and the heap after the call;
\* { ...DEFAULT_SETTINGS, ...content } takes each top-level field of the
\* file that is present, and DEFAULT_SETTINGS's field (for the three nested
\* objects, the very object) otherwise
loadConfigDefaultsWin(h, file) ==
  [config |-> DEFAULT_SETTINGS_OBJECT, heap |-> h]
loadConfigFallbackOllama(h, file) ==
  [config |-> [DEFAULT_SETTINGS_OBJECT EXCEPT !.provider = "ollama"],
   heap |-> h]
loadConfig(h, file) ==
  IF ~file.exists \/ ~file.valid
  THEN [config |-> DEFAULT_SETTINGS_OBJECT, heap |-> h]
  ELSE LET c == file.content
           has(f) == f \in DOMAIN c
       IN [config |->
             [provider     |-> IF has("provider") THEN c.provider
                               ELSE DEFAULT_SETTINGS_OBJECT.provider,
              models       |-> IF has("models") THEN "parsed" ELSE "default",
              hosts        |-> IF has("hosts") THEN "parsed" ELSE "default",
              apiKeys      |-> IF has("apiKeys") THEN "parsed" ELSE "default",
              outputFile   |-> IF has("outputFile") THEN c.outputFile
                               ELSE DEFAULT_SETTINGS_OBJECT.outputFile,
              systemPrompt |-> IF has("systemPrompt") THEN c.systemPrompt
                               ELSE DEFAULT_SETTINGS_OBJECT.systemPrompt],
           heap |->
             [h EXCEPT !["parsed"] =
                [f \in ObjectFields |->
                   IF has(f) THEN c[f] ELSE h["parsed"][f]]]]

\* JSON text of an object whose properties hold strings, null, or (models,
\* hosts, apiKeys) flat objects of strings: the members, each a key and the
\* text of its value; a string is written between quotes, null as null
KeyOrder == <<"provider", "models", "hosts", "apiKeys", "outputFile",
              "systemPrompt", "ollama", "lmstudio", "openai", "openrouter">>

JsonScalar(v) == IF v = NULL THEN <<"null">> ELSE <<"\"", v, "\"">>

KeysOf(obj) == SelectSeq(KeyOrder, LAMBDA k : k \in DOMAIN obj)

JsonFlat(obj) ==
  [i \in 1..Len(KeysOf(obj)) |->
     [key |-> KeysOf(obj)[i], text |-> JsonScalar(obj[KeysOf(obj)[i]])]]

\* JSON.stringify(settings, null, 2)
JsonStringify(obj) ==
  [i \in 1..Len(KeysOf(obj)) |->
     LET k == KeysOf(obj)[i]
     IN [key |-> k,
         text |-> IF k \in ObjectFields THEN JsonFlat(obj[k])
                  ELSE JsonScalar(obj[k])]]

\* the value a JSON text stands for
ScalarOf(text) == IF text = <<"null">> THEN NULL ELSE text[2]

MemberOf(ms, k) == ms[CHOOSE i \in 1..Len(ms) : ms[i].key = k]

FlatOf(ms) ==
  [k \in {ms[i].key : i \in 1..Len(ms)} |-> ScalarOf(MemberOf(ms, k).text)]

\* file.json()
JsonParse(ms) ==
  [k \in {ms[i].key : i \in 1..Len(ms)} |->
     IF k \in ObjectFields THEN FlatOf(MemberOf(ms, k).text)
     ELSE ScalarOf(MemberOf(ms, k).text)]

\* saveConfig(settings): the file holds JSON.stringify(settings, null, 2);
\* content is what file.json() makes of that text
saveConfigWithoutObjects(value) ==
  [exists |-> TRUE, valid |-> TRUE,
   content |-> JsonParse(SelectSeq(JsonStringify(value),
                                   LAMBDA mb : mb.key \notin ObjectFields))]
saveConfig(value) ==
  [exists |-> TRUE, valid |-> TRUE, content |-> JsonParse(JsonStringify(value))]

\* what the user answers in the setup wizard: a host, a key and a model
\* for each provider asked about, and the output file path
SetupAnswers ==
  {[host  |-> [p \in HostProvider |-> PROVIDER_META[p].defaultHost],
    key   |-> [p \in KeyProvider |-> ""],
    model |-> [p \in Provider |-> PROVIDER_META[p].defaultModel],
    outputFile |-> DEFAULT_SETTINGS.outputFile],
   [host  |-> [p \in HostProvider |-> PROVIDER_META[p].defaultHost],
    key   |-> [p \in KeyProvider |->
                 IF p = "openai" THEN "sk-test" ELSE ""],
    model |-> [p \in Provider |->
                 IF p \in {"ollama", "openai"} THEN "custom-model"
                 ELSE PROVIDER_META[p].defaultModel],
    outputFile |-> DEFAULT_SETTINGS.outputFile],
   [host  |-> [p \in HostProvider |->
                 IF p = "lmstudio" THEN "http://remote:1234"
                 ELSE PROVIDER_META[p].defaultHost],
    key   |-> [p \in KeyProvider |->
                 IF p = "openrouter" THEN "sk-test" ELSE ""],
    model |-> [p \in Provider |-> PROVIDER_META[p].defaultModel],
    outputFile |-> DEFAULT_SETTINGS.outputFile]}

\* runSetup's loop over providersToSetup: the nested objects of the
\* settings being built, which are those of owner o
RECURSIVE SetupProviders(_, _, _, _)
SetupProviders(h, o, list, ans) ==
  IF list = <<>> THEN h
  ELSE LET p == Head(list)
           meta == PROVIDER_META[p]
           h1 == IF meta.hasHost
                 THEN [h EXCEPT ![o].hosts[p] = ans.host[p]] ELSE h
           h2 == IF meta.hasApiKey
                 THEN [h1 EXCEPT ![o].apiKeys[p] = ans.key[p]] ELSE h1
           h3 == IF meta.hasApiKey /\ ~Truthy(ans.key[p])
                 THEN h2
                 ELSE [h2 EXCEPT ![o].models[p] = ans.model[p]]
       IN SetupProviders(h3, o, Tail(list), ans)

\* runSetup(): { ...DEFAULT_SETTINGS, provider } shares the nested objects
\* of DEFAULT_SETTINGS; returns the object, the heap and the saved file
runSetup(h, provider, ans) ==
  LET settings0 == [DEFAULT_SETTINGS_OBJECT EXCEPT !.provider = provider]
      providersToSetup == IF provider = "auto" THEN PROVIDERS
                          ELSE <<provider>>
      h1 == SetupProviders(h, settings0.models, providersToSetup, ans)
      settings1 == [settings0 EXCEPT !.outputFile = ans.outputFile]
  IN [config |-> settings1, heap |-> h1,
      file |-> saveConfig(Deref(h1, settings1))]

\* the settings files a user may have before a run
SettingsFileValues ==
  {AbsentSettingsFile,
   [exists |-> TRUE, valid |-> FALSE, content |-> <<>>],
   [exists |-> TRUE, valid |-> TRUE, content |-> [provider |-> "ollama"]],
   [exists |-> TRUE, valid |-> TRUE,
    content |-> [DEFAULT_SETTINGS EXCEPT
                   !.provider = "openai",
                   !.models["openai"] = "gpt-4o",
                   !.apiKeys["openai"] = "sk-test",
                   !.systemPrompt = "Custom system prompt"]]}

\* the settings value of the test "saves config to file", which has the
\* providers of the earlier Settings type
LegacySettings ==
  [provider     |-> "openai",
   models       |-> [ollama |-> "llama3.2", lmstudio |-> "local-model",
                     openai |-> "gpt-4o"],
   hosts        |-> [ollama |-> "http://localhost:11434",
                     lmstudio |-> "http://localhost:1234"],
   apiKeys      |-> [openai |-> "test-key"],
   outputFile   |-> "./custom.txt",
   systemPrompt |-> "Custom prompt"]

\* the Partial<Settings> of the test "merges saved config with defaults"
PartialSettings == [provider |-> "ollama", outputFile |-> "/custom/path.txt"]

\* the settings files loadConfig is called on
ConfigFileValues ==
  SettingsFileValues \cup
  {[exists |-> TRUE, valid |-> TRUE, content |-> c] :
     c \in {PartialSettings, LegacySettings,
            [models |-> [ollama |-> "mistral"]],
            [systemPrompt |-> "Custom system prompt"]}}

\* the values saveConfig is called with
SaveValues ==
  {DEFAULT_SETTINGS, LegacySettings, PartialSettings,
   [systemPrompt |-> ""],
   [hosts |-> [ollama |-> "http://remote:11434",
               lmstudio |-> "http://localhost:1234"]]} \cup
  {[DEFAULT_SETTINGS EXCEPT !.provider = p, !.apiKeys["openrouter"] = k,
                            !.systemPrompt = sp] :
     p \in {"auto", "openrouter"}, k \in ApiKeyValues,
     sp \in SystemPromptValues}

\* ------------------------------------------- src/commands/default.ts
\* the flags of the main command, NULL for a flag that is not given
NoFlags == [provider |-> NULL, p |-> NULL, model |-> NULL, m |-> NULL]

FlagsValues ==
  {NoFlags,
   [NoFlags EXCEPT !.provider = "ollama"],
   [NoFlags EXCEPT !.p = "auto"],
   [NoFlags EXCEPT !.model = "custom-model"],
   [NoFlags EXCEPT !.m = ""],
   [NoFlags EXCEPT !.provider = "openai", !.m = "custom-model"],
   [NoFlags EXCEPT !.provider = "auto", !.model = "custom-model"],
   [NoFlags EXCEPT !.provider = "lmstudio", !.p = "openrouter",
                   !.model = "custom-model", !.m = ""]}

\* a ?? b
Coalesce(a, b) == IF a # NULL THEN a ELSE b

\* the overrides object built from the flags
OverridesOf(flags) ==
  [provider |-> Coalesce(flags.provider, flags.p),
   model    |-> Coalesce(flags.model, flags.m)]

\* hasOverrides
hasOverrides(overrides) ==
  Truthy(overrides.provider) \/ Truthy(overrides.model)

\* config after "if (hasOverrides) config = applyOverrides(config, overrides)"
WithOverrides(h, config, flags) ==
  IF hasOverrides(OverridesOf(flags))
  THEN applyOverrides(h, config, OverridesOf(flags))
  ELSE [merged |-> config, heap |-> h]

\* what the user types at the prompt
Answers == {<<>>, <<" ", "\n">>, <<"a">>}

\* !input.trim()
IsBlankOnlyEmpty(input) == input = <<>>
IsBlank(input) == Trim(input) = <<>>

\* what the providers do in a run of the main command
MainGenOutcomes ==
  {[kind |-> "text", text |-> t, thrown |-> NoThrow] :
     t \in {<<"a">>, <<" ", "a", "\n">>, <<"\n", " ">>}} \cup
  {[kind |-> "throw", text |-> <<>>,
    thrown |-> [isObject |-> TRUE, hasMessage |-> TRUE,
                message |-> "API error"]]}

\* after "await refineIntention": write and end normally when it returned,
\* process.exit(1) from the catch block when it threw
AfterRefineWriteAlways(resolverPc) ==
  IF resolverPc = "returned" THEN [write |-> TRUE, exitCode |-> 0]
  ELSE [write |-> TRUE, exitCode |-> 1]
AfterRefineExitZero(resolverPc) ==
  IF resolverPc = "returned" THEN [write |-> TRUE, exitCode |-> 0]
  ELSE [write |-> FALSE, exitCode |-> 0]
AfterRefine(resolverPc) ==
  IF resolverPc = "returned" THEN [write |-> TRUE, exitCode |-> 0]
  ELSE [write |-> FALSE, exitCode |-> 1]

\* ------------------------------------------- src/model-fetcher.ts
\* model identifiers, each a sequence of two fragments so that startsWith
\* is computed; SortedIds lists them in the order Array.prototype.sort
\* gives them
SortedIds ==
  << <<"anthropic/", "claude">>, <<"google/", "gemini-flash-1.5">>,
     <<"gpt-", "3.5-turbo">>, <<"gpt-", "4o">>, <<"llama", "3.2">>,
     <<"whisper-", "1">>, <<"x-ai/", "grok">> >>

Rank(id) == CHOOSE i \in 1..Len(SortedIds) : SortedIds[i] = id

\* list.sort()
RECURSIVE Insert(_, _)
Insert(id, sorted) ==
  IF sorted = <<>> THEN <<id>>
  ELSE IF Rank(id) <= Rank(Head(sorted)) THEN <<id>> \o sorted
  ELSE <<Head(sorted)>> \o Insert(id, Tail(sorted))

RECURSIVE Sort(_)
Sort(list) == IF list = <<>> THEN <<>> ELSE Insert(Head(list), Sort(Tail(list)))

\* the lists of entries a listing endpoint answers with
EntryLists ==
  {<<>>,
   << <<"llama", "3.2">> >>,
   << <<"gpt-", "4o">>, <<"whisper-", "1">>, <<"gpt-", "3.5-turbo">> >>,
   << <<"google/", "gemini-flash-1.5">>, <<"x-ai/", "grok">>,
      <<"anthropic/", "claude">> >>}

\* what the remote end does with the GET: a network error, no answer
\* before the timer aborts the request, a status that is not a success, or
\* a success whose body is not JSON, or is JSON with or without the
\* properties models and data (each entry's id and name are its identifier)
ListingResponses ==
  {[kind |-> k, json |-> FALSE, hasModels |-> FALSE, hasData |-> FALSE,
    entries |-> <<>>] : k \in {"error", "abort", "status", "ok"}} \cup
  {[kind |-> "ok", json |-> TRUE, hasModels |-> FALSE, hasData |-> FALSE,
    entries |-> <<>>]} \cup
  {[kind |-> "ok", json |-> TRUE, hasModels |-> hm, hasData |-> ~hm,
    entries |-> l] : hm \in BOOLEAN, l \in EntryLists}

popularPrefixes ==
  {"google/", "anthropic/", "openai/", "meta-llama/", "deepseek/", "cohere/",
   "mistralai/", "amazon/"}

\* the body of a fetcher's try block from the settled fetch on: whether it
\* raised (fetch rejected, response.json() rejected, or a TypeError on
\* reading the missing list) and the list it returns otherwise
ListingBody(r, hasList, list) ==
  IF r.kind \in {"error", "abort"} THEN [raised |-> TRUE, list |-> <<>>]
  ELSE IF ~ResponseOk(r.kind) THEN [raised |-> FALSE, list |-> <<>>]
  ELSE IF ~r.json \/ ~hasList THEN [raised |-> TRUE, list |-> <<>>]
  ELSE [raised |-> FALSE, list |-> list]

\* catch (_error) { return []; }
CatchRethrows(b) == [threw |-> b.raised, list |-> b.list]
Catch(b) == [threw |-> FALSE, list |-> IF b.raised THEN <<>> ELSE b.list]

\* the four listing functions: the request each issues and, by the
\* response, whether it threw and the list it returned
fetchOllamaModelsRequest(host) ==
  [url |-> <<host, "/api/tags">>, authorization |-> <<>>]
fetchOllamaModels(r) == Catch(ListingBody(r, r.hasModels, r.entries))

fetchLMStudioModelsRequest(host) ==
  [url |-> <<host, "/v1/models">>, authorization |-> <<>>]
fetchLMStudioModels(r) == Catch(ListingBody(r, r.hasData, r.entries))

fetchOpenAIModelsRequest(apiKey) ==
  [url |-> <<"https://api.openai.com/v1/models">>,
   authorization |-> <<"Bearer ", apiKey>>]
fetchOpenAIModels(r) ==
  Catch(ListingBody(r, r.hasData,
        Sort(SelectSeq(r.entries, LAMBDA id : id[1] = "gpt-"))))

fetchOpenRouterModelsRequest(apiKey) ==
  [url |-> <<"https://openrouter.ai/api/v1/models">>,
   authorization |-> IF Truthy(apiKey) THEN <<"Bearer ", apiKey>> ELSE <<>>]
fetchOpenRouterModels(r) ==
  Catch(ListingBody(r, r.hasData,
        Sort(SelectSeq(r.entries, LAMBDA id : id[1] \in popularPrefixes))))

\* the argument a listing function takes from the settings
ListingArgument(provider, s) ==
  IF PROVIDER_META[provider].hasHost THEN s.hosts[provider]
  ELSE s.apiKeys[provider]

ListingRequest(provider, arg) ==
  CASE provider = "ollama" -> fetchOllamaModelsRequest(arg)
    [] provider = "lmstudio" -> fetchLMStudioModelsRequest(arg)
    [] provider = "openai" -> fetchOpenAIModelsRequest(arg)
    [] provider = "openrouter" -> fetchOpenRouterModelsRequest(arg)

ListingResult(provider, r) ==
  CASE provider = "ollama" -> fetchOllamaModels(r)
    [] provider = "lmstudio" -> fetchLMStudioModels(r)
    [] provider = "openai" -> fetchOpenAIModels(r)
    [] provider = "openrouter" -> fetchOpenRouterModels(r)

\* fetchModelsForProvider(provider, settings): whether it calls the
\* provider's listing function; the key-based cases return [] without a
\* call when the key is empty
CallsListingAlways(provider, s) == TRUE
CallsListing(provider, s) ==
  PROVIDER_META[provider].hasApiKey => Truthy(s.apiKeys[provider])

\* the settings and the direct arguments of the listing functions
FetcherSettings ==
  {[DEFAULT_SETTINGS EXCEPT !.hosts["ollama"] = h, !.apiKeys = k] :
     h \in {PROVIDER_META["ollama"].defaultHost, "http://remote:11434"},
     k \in [KeyProvider -> ApiKeyValues]}

ListingArguments(provider) ==
  {ListingArgument(provider, s) : s \in FetcherSettings}

\* ------------------------------------------------------------------ state
VARIABLES
  pc,           \* "idle", "probing", "generating", "returned", "thrown"
  settings,     \* the settings argument of the running call
  userInput,    \* the userInput argument of the running call
  scanIdx,      \* detectProvider's position in DetectionOrder, 0 outside the loop
  detected,     \* detectProvider's returned provider, NULL before and if none
  callSite,     \* which call of tryProvider runs: "explicit", "auto", or "none"
  throwOnError, \* the throwOnError argument of the running tryProvider
  probes,       \* the providers whose detection check has run, in order
  fetchLog,     \* the GET requests issued: [provider, url, outcome]
  genLog,       \* the generateText calls issued: [request, outcome]
  console,      \* what tryProvider wrote with console.error
  result,       \* the value refineIntention resolved with, or NoResult
  error,        \* the message of the Error refineIntention rejected with, or <<>>
  outFile,      \* the output file on disk: [exists, text]
  written,      \* the calls of writeTodayFile that completed: [date, text]
  heap,         \* the nested objects of each owner
  ov,           \* a call of applyOverrides: its arguments, the heap before
                \* it, and once it is done the object it returned
  mpc,          \* the main command: "none", "start", "prompt", "refining", "exited"
  flags,        \* the flags of the running main command
  config,       \* its config variable, a Settings object
  answer,       \* what the user typed at its prompt
  exitCode,     \* the exit status of the process, -1 while it runs
  settingsFile, \* the settings file on disk: [exists, valid, content]
  runs,         \* the runs of the main command started so far
  atStart,      \* the two files as they were when the running process started
  everOverridden, \* an earlier run had runtime overrides
  setups,       \* the runs in which runSetup() completed, in order
  cfg,          \* the last call of saveConfig or loadConfig made directly
  mf,           \* a call of fetchModelsForProvider
  conc          \* two concurrent invocations of writeTodayFile

resolverVars == <<pc, settings, userInput, scanIdx, detected, callSite,
                  throwOnError, probes, fetchLog, genLog, console, result, error>>
fileVars == <<outFile, written>>
memoryVars == <<heap, ov>>
mainVars == <<mpc, flags, config, answer, exitCode, settingsFile, runs, atStart,
              everOverridden, setups>>

libraryVars == <<cfg, mf, conc>>

\* what a call of refineIntention leaves alone
callerVars == <<fileVars, memoryVars, mainVars, libraryVars>>

vars == <<resolverVars, callerVars>>

NoResult == [refined |-> <<>>, provider |-> NULL]

ResolverInit ==
  /\ pc = "idle"
  /\ settings = DEFAULT_SETTINGS
  /\ userInput = ""
  /\ scanIdx = 0
  /\ detected = NULL
  /\ callSite = "none"
  /\ throwOnError = FALSE
  /\ probes = <<>>
  /\ fetchLog = <<>>
  /\ genLog = <<>>
  /\ console = <<>>
  /\ result = NoResult
  /\ error = <<>>

FileInit ==
  /\ outFile \in {AbsentFile, [exists |-> TRUE, text |-> <<>>]}
  /\ written = <<>>

\* the heap when the module has been loaded
InitialHeap == [o \in Owners |-> NestedOf(DEFAULT_SETTINGS)]

NoCall == [state |-> "none", config |-> DEFAULT_SETTINGS_OBJECT,
           overrides |-> NoOverrides, heapBefore |-> InitialHeap,
           merged |-> DEFAULT_SETTINGS_OBJECT]

MemoryInit ==
  /\ heap = InitialHeap
  /\ ov = NoCall

\* no direct call of a library function is under way
NoCfg == [op |-> "none"]
NoFetch == [state |-> "none"]
NoConc == [state |-> "none"]

LibraryInit ==
  /\ cfg = NoCfg
  /\ mf = NoFetch
  /\ conc = NoConc

\* no main command runs
NoMain ==
  /\ mpc = "none"
  /\ flags = NoFlags
  /\ config = DEFAULT_SETTINGS_OBJECT
  /\ answer = <<>>
  /\ exitCode = -1
  /\ settingsFile = AbsentSettingsFile
  /\ runs = 0
  /\ atStart = [outFile |-> AbsentFile, settingsFile |-> AbsentSettingsFile]
  /\ everOverridden = FALSE
  /\ setups = <<>>

Init ==
  /\ ResolverInit
  /\ outFile = AbsentFile
  /\ written = <<>>
  /\ MemoryInit
  /\ NoMain
  /\ LibraryInit

\* tryProvider up to its await: generate() calls generateText
CallTryProvider(providerName, s, input, site, toe, outcome) ==
  /\ pc' = "generating"
  /\ callSite' = site
  /\ throwOnError' = toe
  /\ genLog' = Append(genLog, [request |-> GenerateRequest(providerName, s, input),
                               outcome |-> outcome])

\* detectProvider from position i, and refineIntention's continuation when it
\* returns without awaiting
RunDetect(s, input, i, fo, go) ==
  LET d == DetectFrom(s, i)
      p == DetectionOrder[d.idx]
  IN /\ probes' = probes \o d.checked \o (IF d.kind = "fetch" THEN <<p>> ELSE <<>>)
     /\ CASE d.kind = "fetch" ->
               /\ pc' = "probing"
               /\ scanIdx' = d.idx
               /\ fetchLog' = Append(fetchLog,
                    [provider |-> p,
                     url |-> <<s.hosts[p], DETECTION_CONFIG[p].endpoint>>,
                     outcome |-> fo])
               /\ UNCHANGED <<detected, callSite, throwOnError, genLog, error>>
          [] d.kind = "found" ->
               /\ scanIdx' = 0
               /\ detected' = p
               /\ CallTryProvider(p, s, input, "auto", AutoThrowOnError, go)
               /\ UNCHANGED <<fetchLog, error>>
          [] d.kind = "none" ->
               /\ scanIdx' = 0
               /\ detected' = NULL
               /\ pc' = "thrown"
               /\ error' = NO_PROVIDER_MESSAGE
               /\ UNCHANGED <<callSite, throwOnError, fetchLog, genLog>>

\* refineIntention(userInput, settings) up to its first await
StartRefine(s, input, fo, go) ==
  /\ settings' = s
  /\ userInput' = input
  /\ console' = <<>>
  /\ result' = NoResult
  /\ IF s.provider # "auto"
     THEN /\ CallTryProvider(s.provider, s, input, "explicit",
                          ExplicitThrowOnError, go)
          /\ probes' = <<>>
          /\ fetchLog' = <<>>
          /\ error' = <<>>
          /\ UNCHANGED <<scanIdx, detected>>
     ELSE RunDetect(s, input, 1, fo, go)

\* a call of refineIntention with any settings and input
RefineIntention ==
  /\ pc = "idle"
  /\ \E s \in SettingsValues, input \in UserInputs,
        fo \in FetchOutcomes, go \in GenOutcomes :
       StartRefine(s, input, fo, go)
  /\ UNCHANGED callerVars

\* the awaited GET settles: detectProvider returns the provider on response.ok
\* and moves on to the next entry otherwise
FetchSettlesWith(outcomes) ==
  /\ pc = "probing"
  /\ LET req == fetchLog[Len(fetchLog)]
     IN /\ req.outcome # "silent"
        /\ \E fo \in FetchOutcomes, go \in outcomes :
             IF req.outcome # "error" /\ ResponseOk(req.outcome)
             THEN /\ scanIdx' = 0
                  /\ detected' = req.provider
                  /\ CallTryProvider(req.provider, settings, userInput, "auto",
                                     AutoThrowOnError, go)
                  /\ UNCHANGED <<probes, fetchLog, error>>
             ELSE RunDetect(settings, userInput, scanIdx + 1, fo, go)
  /\ UNCHANGED <<settings, userInput, console, result>>
  /\ UNCHANGED callerVars

FetchSettles == FetchSettlesWith(GenOutcomes)

\* the awaited generateText settles: tryProvider returns the value, throws
\* the formatted error or logs and returns null; refineIntention returns a
\* value, and after a null goes on to detection (explicit call site) or to
\* its final throw (auto call site)
GenerateSettlesWith(outcomes) ==
  /\ pc = "generating"
  /\ LET call == genLog[Len(genLog)]
         p == call.request.provider
     IN IF call.outcome.kind = "text"
        THEN /\ pc' = "returned"
             /\ result' = TryProviderValue(p, call.outcome.text)
             /\ UNCHANGED <<error, console, scanIdx, detected, callSite,
                            throwOnError, probes, fetchLog, genLog>>
        ELSE IF throwOnError
        THEN /\ pc' = "thrown"
             /\ error' = formatError(call.outcome.thrown,
                                     PROVIDER_META[p].displayName)
             /\ UNCHANGED <<result, console, scanIdx, detected, callSite,
                            throwOnError, probes, fetchLog, genLog>>
        ELSE /\ console' = Append(console,
                  [text |-> <<PROVIDER_META[p].displayName, " refinement failed:">>,
                   error |-> call.outcome.thrown])
             /\ result' = result
             /\ IF callSite = "explicit"
                THEN \E fo \in FetchOutcomes, go \in outcomes :
                       RunDetect(settings, userInput, 1, fo, go)
                ELSE /\ pc' = "thrown"
                     /\ error' = NO_PROVIDER_MESSAGE
                     /\ UNCHANGED <<scanIdx, detected, callSite, throwOnError,
                                    probes, fetchLog, genLog>>
  /\ UNCHANGED <<settings, userInput>>
  /\ UNCHANGED callerVars

GenerateSettles == GenerateSettlesWith(GenOutcomes)

\* the state of refineIntention is gone once its caller has its outcome
ResolverReset ==
  /\ pc' = "idle"
  /\ settings' = DEFAULT_SETTINGS
  /\ userInput' = ""
  /\ scanIdx' = 0
  /\ detected' = NULL
  /\ callSite' = "none"
  /\ throwOnError' = FALSE
  /\ probes' = <<>>
  /\ fetchLog' = <<>>
  /\ genLog' = <<>>
  /\ console' = <<>>
  /\ result' = NoResult
  /\ error' = <<>>

\* the caller takes the value or the error; the next call starts afresh
Return ==
  /\ pc \in {"returned", "thrown"}
  /\ ResolverReset
  /\ UNCHANGED callerVars

Next == RefineIntention \/ FetchSettles \/ GenerateSettles \/ Return

Spec == Init /\ [][Next]_vars

\* every step of a call is taken once it can be: the runtime runs a
\* continuation when its promise settles
FairSpec == Spec /\ WF_vars(Next)

\* ------------------------------------------- writes to one output file
\* writeTodayFile(refinedText, outputFile) with a text generate() returned
WriteTodayFile ==
  /\ Len(written) < MaxWrites
  /\ \E refinedText \in TrimmedTexts, now \in Nows :
       /\ outFile' = writeTodayFile(outFile, refinedText, now)
       /\ written' = Append(written, [date |-> formatDate(now),
                                      text |-> refinedText])
  /\ UNCHANGED <<resolverVars, memoryVars, mainVars, libraryVars>>

FileInitAll ==
  /\ ResolverInit
  /\ FileInit
  /\ MemoryInit
  /\ NoMain
  /\ LibraryInit

FileNext == WriteTodayFile

FileSpec == FileInitAll /\ [][FileNext]_vars

\* ------------------------------------------------- calls of applyOverrides
\* the caller's settings object, either its own or DEFAULT_SETTINGS itself
\* (which loadConfig returns for a missing file), and the overrides
OverridesInit ==
  /\ ResolverInit
  /\ outFile = AbsentFile
  /\ written = <<>>
  /\ NoMain
  /\ LibraryInit
  /\ \E s \in ArgSettingsValues, o \in OverridesValues,
        own \in {"default", "arg"} :
       /\ own = "default" => s = DEFAULT_SETTINGS
       /\ heap = [InitialHeap EXCEPT !["arg"] = NestedOf(s)]
       /\ ov = [state |-> "ready", config |-> ObjectOf(own, s),
                overrides |-> o, heapBefore |-> heap,
                merged |-> ObjectOf(own, s)]

ApplyOverrides ==
  /\ ov.state = "ready"
  /\ LET r == applyOverrides(heap, ov.config, ov.overrides)
     IN /\ heap' = r.heap
        /\ ov' = [ov EXCEPT !.state = "done", !.heapBefore = heap,
                            !.merged = r.merged]
  /\ UNCHANGED <<resolverVars, fileVars, mainVars, libraryVars>>

OverridesNext == ApplyOverrides

OverridesSpec == OverridesInit /\ [][OverridesNext]_vars

\* ------------------------------------------------- the main command
\* a process starts: the user's settings file, the flags of the run
MainInit ==
  /\ ResolverInit
  /\ outFile = AbsentFile
  /\ written = <<>>
  /\ MemoryInit
  /\ LibraryInit
  /\ mpc = "start"
  /\ flags \in FlagsValues
  /\ config = DEFAULT_SETTINGS_OBJECT
  /\ answer = <<>>
  /\ exitCode = -1
  /\ settingsFile \in SettingsFileValues
  /\ runs = 1
  /\ atStart = [outFile |-> outFile, settingsFile |-> settingsFile]
  /\ everOverridden = FALSE
  /\ setups = <<>>

\* the settings file exists: loadConfig(), then the overrides, up to the prompt
MainLoadConfig ==
  /\ mpc = "start"
  /\ configExists(settingsFile)
  /\ LET l == loadConfig(heap, settingsFile)
         w == WithOverrides(l.heap, l.config, flags)
     IN /\ heap' = w.heap
        /\ config' = w.merged
  /\ mpc' = "prompt"
  /\ UNCHANGED <<resolverVars, fileVars, ov, flags, answer, exitCode,
                 settingsFile, runs, atStart, everOverridden, setups, libraryVars>>

\* no settings file: runSetup(), which saves one, then the overrides
MainRunSetup ==
  /\ mpc = "start"
  /\ ~configExists(settingsFile)
  /\ \E provider \in ProviderOrAuto, ans \in SetupAnswers :
       LET r == runSetup(heap, provider, ans)
           w == WithOverrides(r.heap, r.config, flags)
       IN /\ heap' = w.heap
          /\ config' = w.merged
          /\ settingsFile' = r.file
  /\ setups' = Append(setups, runs)
  /\ mpc' = "prompt"
  /\ UNCHANGED <<resolverVars, fileVars, ov, flags, answer, exitCode, runs,
                 atStart, everOverridden, libraryVars>>

\* the prompt is answered: a blank answer ends the run, any other answer is
\* passed to refineIntention with the config
MainPrompt ==
  /\ mpc = "prompt"
  /\ \E input \in Answers :
       /\ answer' = input
       /\ IF IsBlank(input)
          THEN /\ mpc' = "exited"
               /\ exitCode' = 0
               /\ UNCHANGED resolverVars
          ELSE /\ mpc' = "refining"
               /\ exitCode' = exitCode
               /\ \E fo \in FetchOutcomes, go \in MainGenOutcomes :
                    StartRefine(Deref(heap, config), input, fo, go)
  /\ UNCHANGED <<fileVars, memoryVars, flags, config, settingsFile, runs,
                 atStart, everOverridden, setups, libraryVars>>

MainFetchSettles == FetchSettlesWith(MainGenOutcomes)

MainGenerateSettles == GenerateSettlesWith(MainGenOutcomes)

\* refineIntention has settled: the entry is written and the command ends,
\* or the catch block ends the process
MainSettle ==
  /\ mpc = "refining"
  /\ pc \in {"returned", "thrown"}
  /\ LET a == AfterRefine(pc)
     IN /\ exitCode' = a.exitCode
        /\ IF a.write
           THEN \E now \in Nows :
                  /\ outFile' = writeTodayFile(outFile, result.refined, now)
                  /\ written' = Append(written, [date |-> formatDate(now),
                                                 text |-> result.refined])
           ELSE UNCHANGED fileVars
  /\ mpc' = "exited"
  /\ UNCHANGED <<resolverVars, memoryVars, flags, config, answer,
                 settingsFile, runs, atStart, everOverridden, setups, libraryVars>>

\* the next run is a new process: its memory is fresh, the files stay
MainNextRun ==
  /\ mpc = "exited"
  /\ runs < MaxRuns
  /\ mpc' = "start"
  /\ flags' \in FlagsValues
  /\ config' = DEFAULT_SETTINGS_OBJECT
  /\ answer' = <<>>
  /\ exitCode' = -1
  /\ runs' = runs + 1
  /\ atStart' = [outFile |-> outFile, settingsFile |-> settingsFile]
  /\ everOverridden' = (everOverridden \/ hasOverrides(OverridesOf(flags)))
  /\ heap' = InitialHeap
  /\ ov' = NoCall
  /\ ResolverReset
  /\ UNCHANGED <<fileVars, settingsFile, setups, libraryVars>>

MainNext ==
  \/ MainLoadConfig
  \/ MainRunSetup
  \/ MainPrompt
  \/ MainFetchSettles
  \/ MainGenerateSettles
  \/ MainSettle
  \/ MainNextRun

MainSpec == MainInit /\ [][MainNext]_vars

\* ------------------------------- calls of saveConfig and loadConfig
\* a process that calls saveConfig and loadConfig, in any order, on the
\* user's settings file
ConfigInit ==
  /\ ResolverInit
  /\ outFile = AbsentFile
  /\ written = <<>>
  /\ MemoryInit
  /\ LibraryInit
  /\ mpc = "none"
  /\ flags = NoFlags
  /\ config = DEFAULT_SETTINGS_OBJECT
  /\ answer = <<>>
  /\ exitCode = -1
  /\ settingsFile \in ConfigFileValues
  /\ runs = 0
  /\ atStart = [outFile |-> AbsentFile, settingsFile |-> AbsentSettingsFile]
  /\ everOverridden = FALSE
  /\ setups = <<>>

SaveConfig ==
  /\ \E s \in SaveValues :
       /\ settingsFile' = saveConfig(s)
       /\ cfg' = [op |-> "save", arg |-> s]
  /\ UNCHANGED <<resolverVars, fileVars, memoryVars, mf, conc, mpc, flags,
                 config, answer, exitCode, runs, atStart, everOverridden,
                 setups>>

LoadConfig ==
  /\ LET l == loadConfig(heap, settingsFile)
     IN /\ heap' = l.heap
        /\ config' = l.config
        /\ cfg' = [op |-> "load", fileBefore |-> settingsFile,
                   afterSave |-> cfg.op = "save",
                   arg |-> IF cfg.op = "save" THEN cfg.arg ELSE <<>>,
                   returned |-> Deref(l.heap, l.config)]
  /\ UNCHANGED <<resolverVars, fileVars, ov, mf, conc, mpc, flags, answer,
                 exitCode, settingsFile, runs, atStart, everOverridden,
                 setups>>

ConfigNext == SaveConfig \/ LoadConfig

ConfigSpec == ConfigInit /\ [][ConfigNext]_vars

\* ------------------------------------- calls of the model fetchers
FetcherInit ==
  /\ ResolverInit
  /\ outFile = AbsentFile
  /\ written = <<>>
  /\ MemoryInit
  /\ NoMain
  /\ LibraryInit

\* one of the four listing functions is called directly, up to its await
CallListing ==
  /\ mf.state = "none"
  /\ \E provider \in Provider, r \in ListingResponses :
       \E arg \in ListingArguments(provider) :
          mf' = [state |-> "waiting", entry |-> "direct",
                 provider |-> provider, settings |-> DEFAULT_SETTINGS,
                 requests |-> <<ListingRequest(provider, arg)>>,
                 response |-> r, threw |-> FALSE, returned |-> <<>>]
  /\ UNCHANGED <<resolverVars, fileVars, memoryVars, mainVars, cfg, conc>>

\* fetchModelsForProvider(provider, settings), up to its await or its return
FetchModelsForProvider ==
  /\ mf.state = "none"
  /\ \E provider \in Provider, s \in FetcherSettings,
        r \in ListingResponses :
       mf' = IF CallsListing(provider, s)
             THEN [state |-> "waiting", entry |-> "dispatch",
                   provider |-> provider, settings |-> s,
                   requests |->
                     <<ListingRequest(provider,
                                      ListingArgument(provider, s))>>,
                   response |-> r, threw |-> FALSE, returned |-> <<>>]
             ELSE [state |-> "done", entry |-> "dispatch",
                   provider |-> provider, settings |-> s,
                   requests |-> <<>>,
                   response |-> r, threw |-> FALSE, returned |-> <<>>]
  /\ UNCHANGED <<resolverVars, fileVars, memoryVars, mainVars, cfg, conc>>

\* the awaited GET settles and the listing function returns
ListingSettles ==
  /\ mf.state = "waiting"
  /\ LET res == ListingResult(mf.provider, mf.response)
     IN mf' = [mf EXCEPT !.state = "done", !.threw = res.threw,
                         !.returned = res.list]
  /\ UNCHANGED <<resolverVars, fileVars, memoryVars, mainVars, cfg, conc>>

FetcherNext == CallListing \/ FetchModelsForProvider \/ ListingSettles

FetcherSpec == FetcherInit /\ [][FetcherNext]_vars

\* ------------------------ two invocations of writeTodayFile at once
\* Each invocation awaits file.exists(), then file.text(), then Bun.write;
\* between two awaits of one the other may run.  Bun.write replaces the
\* whole content in one step.
Writers == {1, 2}

\* the output file before the two invocations
PreviousFiles ==
  {AbsentFile, [exists |-> TRUE, text |-> <<>>],
   writeTodayFile(AbsentFile, <<"a", "\n", "a">>,
                  [year |-> 2026, month |-> 10, day |-> 4])}

\* the refined text of each invocation
WriterTexts == [Writers -> {<<>>, <<"a">>, <<"a", "a">>, <<"a", " ", "a">>}]

ConcurrentInit ==
  /\ ResolverInit
  /\ MemoryInit
  /\ NoMain
  /\ cfg = NoCfg
  /\ mf = NoFetch
  /\ outFile \in PreviousFiles
  /\ written = <<>>
  /\ \E texts \in WriterTexts, nows \in [Writers -> Nows] :
       /\ texts[1] \in {<<>>, <<"a">>}
       /\ texts[2] \in {<<"a", "a">>, <<"a", " ", "a">>}
       /\ conc = [state |-> "running",
                  w |-> [i \in Writers |->
                           [pc |-> "start", text |-> texts[i],
                            now |-> nows[i], existing |-> <<>>]],
                  order |-> <<>>,
                  before |-> outFile,
                  bothRead |-> FALSE]

\* readTodayFile: await file.exists(); a file that does not exist reads as ""
ConcCheckExists(i) ==
  /\ conc.state = "running"
  /\ conc.w[i].pc = "start"
  /\ conc' = IF outFile.exists
             THEN [conc EXCEPT !.w[i].pc = "checked"]
             ELSE [conc EXCEPT !.w[i].pc = "read",
                               !.w[i].existing = readTodayFile(outFile)]
  /\ UNCHANGED <<resolverVars, fileVars, memoryVars, mainVars, cfg, mf>>

\* readTodayFile: await file.text()
ConcReadText(i) ==
  /\ conc.state = "running"
  /\ conc.w[i].pc = "checked"
  /\ conc' = [conc EXCEPT !.w[i].pc = "read",
                          !.w[i].existing = readTodayFile(outFile)]
  /\ UNCHANGED <<resolverVars, fileVars, memoryVars, mainVars, cfg, mf>>

\* writeTodayFile from the value of existing on: await Bun.write
ConcWrite(i) ==
  /\ conc.state = "running"
  /\ conc.w[i].pc = "read"
  /\ LET me == conc.w[i]
     IN /\ outFile' = [exists |-> TRUE,
                       text |-> WriteContent(me.existing, me.text,
                                             formatDate(me.now))]
        /\ written' = Append(written, [date |-> formatDate(me.now),
                                       text |-> me.text])
  /\ conc' = [conc EXCEPT
               !.w[i].pc = "done",
               !.order = Append(conc.order, i),
               !.bothRead = IF conc.order = <<>>
                            THEN \A j \in Writers : conc.w[j].pc = "read"
                            ELSE conc.bothRead]
  /\ UNCHANGED <<resolverVars, memoryVars, mainVars, cfg, mf>>

ConcurrentNext ==
  \E i \in Writers : ConcCheckExists(i) \/ ConcReadText(i) \/ ConcWrite(i)

ConcurrentSpec == ConcurrentInit /\ [][ConcurrentNext]_vars

TypeOK ==
  /\ pc \in {"idle", "probing", "generating", "returned", "thrown"}
  /\ settings \in SettingsValues
  /\ scanIdx \in 0..Len(DetectionOrder)
  /\ detected \in Provider \cup {NULL}
  /\ callSite \in {"none", "explicit", "auto"}
  /\ throwOnError \in BOOLEAN

\* ------------------------------------------------------- claim vocabulary
Started == pc # "idle"
Explicit == Started /\ settings.provider # "auto"
Auto == Started /\ settings.provider = "auto"
Terminated == pc \in {"returned", "thrown"}

\* the first generateText call has settled with a rejection
FirstGenFailed ==
  /\ genLog # <<>>
  /\ genLog[1].outcome.kind = "throw"
  /\ ~(pc = "generating" /\ Len(genLog) = 1)

\* the i-th GET has settled
Settled(i) == ~(pc = "probing" /\ i = Len(fetchLog))

Contains(msg, fragment) == \E i \in 1..Len(msg) : msg[i] = fragment

FixedOrder == <<"ollama", "lmstudio", "openai", "openrouter">>
HostBased == {"ollama", "lmstudio"}
KeyBased == {"openai", "openrouter"}

\* ------------------------------------------------------------------ claims

\* C1: with a concrete provider selected, a failed generation makes
\* refineIntention fail with a message that starts with that provider's
\* display name followed by " error: ", no detection probe is issued and no
\* other provider is asked to generate.
C1_ExplicitFailureIsQualified ==
  (Explicit /\ FirstGenFailed) =>
     /\ pc = "thrown"
     /\ Len(error) >= 2
     /\ error[1] = PROVIDER_META[settings.provider].displayName
     /\ error[2] \in {" error: ", " error: Unknown error occurred"}
     /\ probes = <<>>
     /\ fetchLog = <<>>
     /\ Len(genLog) = 1
     /\ genLog[1].request.provider = settings.provider

C1_Witness ==
  /\ Explicit
  /\ FirstGenFailed
  /\ pc = "thrown"
  /\ error = <<"LM Studio", " error: ", "API error">>

\* C2 (as claimed): with openai or openrouter selected explicitly and its API
\* key empty, refineIntention fails without having issued a generation
\* request, with the message "<Provider> requires an API key".
C2_MissingKeyFailsBeforeGeneration ==
  (/\ Explicit
   /\ settings.provider \in KeyBased
   /\ settings.apiKeys[settings.provider] = "") =>
     /\ genLog = <<>>
     /\ pc = "thrown"
     /\ error = <<PROVIDER_META[settings.provider].displayName,
                  " requires an API key">>

C4_AutoFallsBackToCloud ==
  (/\ Auto
   /\ Terminated
   /\ FirstGenFailed
   /\ genLog[1].request.provider \in HostBased
   /\ \E q \in KeyBased : settings.apiKeys[q] # "") =>
     \E i \in 2..Len(genLog) : genLog[i].request.provider \in KeyBased

\* C5: in auto mode the providers are checked in the order ollama, lmstudio,
\* openai, openrouter (so both host-based ones before any key-based one),
\* the provider asked to generate is the first whose check succeeds, and
\* nothing after it is probed or used.
C5_AutoUsesFirstDetected ==
  Auto =>
     /\ Len(probes) <= Len(FixedOrder)
     /\ \A i \in 1..Len(probes) : probes[i] = FixedOrder[i]
     /\ genLog # <<>> =>
          /\ genLog[1].request.provider = probes[Len(probes)]
          /\ detected = probes[Len(probes)]
          /\ \A i \in 1..Len(probes) :
               LET p == probes[i]
                   ok == IF p \in HostBased
                         THEN \E j \in 1..Len(fetchLog) :
                                /\ fetchLog[j].provider = p
                                /\ fetchLog[j].outcome = "ok"
                         ELSE settings.apiKeys[p] # ""
               IN ok <=> (i = Len(probes))

C5_Witness ==
  /\ Auto
  /\ pc = "returned"
  /\ probes = <<"ollama", "lmstudio", "openai">>
  /\ result.provider = "openai"
  /\ settings.apiKeys["openrouter"] # ""

\* C6: in auto mode, when the probes of both hosts have ended in a network
\* error or a non-success status and both API keys are empty,
\* refineIntention fails with the "No LLM provider available" error and no
\* generation request has been made.
C6_NothingDetectable ==
  (/\ Auto
   /\ pc # "probing"
   /\ \A i \in 1..Len(fetchLog) : fetchLog[i].outcome \in {"status", "error"}
   /\ \A q \in KeyBased : settings.apiKeys[q] = "") =>
     /\ pc = "thrown"
     /\ Contains(error, "No LLM provider available")
     /\ genLog = <<>>
     /\ detected = NULL

C6_Witness ==
  /\ Auto
  /\ pc = "thrown"
  /\ Len(fetchLog) = 2
  /\ fetchLog[1].outcome = "error"
  /\ fetchLog[2].outcome = "status"
  /\ genLog = <<>>

\* C7: a call of refineIntention issues at most one generation request, and
\* with a concrete provider selected exactly one, to that provider.
C7_AtMostOneGeneration ==
  /\ Len(genLog) <= 1
  /\ Explicit =>
       /\ Len(genLog) = 1
       /\ genLog[1].request.provider = settings.provider

C7_Witness ==
  /\ Explicit
  /\ pc = "thrown"
  /\ Len(genLog) = 1
  /\ settings.provider = "openrouter"

\* C8 (as claimed): a detection probe that is awaited ends, by an answer or
\* by its timeout, and the call of refineIntention then terminates.
C8_ProbeIsBounded ==
  (pc = "probing") ~> Terminated

\* C9: when refineIntention returns, the provider it reports is not null and
\* is the label in PROVIDER_META of the selected provider (explicit mode) or
\* of the detected provider (auto mode).
C9_ReturnedProviderIsLabel ==
  pc = "returned" =>
     /\ result.provider # NULL
     /\ Explicit => result.provider = PROVIDER_META[settings.provider].label
     /\ Auto => /\ detected # NULL
                /\ detected = probes[Len(probes)]
                /\ result.provider = PROVIDER_META[detected].label

C9_Witness ==
  /\ Auto
  /\ pc = "returned"
  /\ detected = "lmstudio"
  /\ result.provider = "lmstudio"

\* C10: the detection check of openai or openrouter succeeds exactly when
\* that provider's API key is non-empty and issues no GET; the check of
\* ollama or lmstudio issues one GET on host + listing path and succeeds
\* exactly when the answer has a success status.
C10_DetectionRules ==
  Auto =>
    \A i \in 1..Len(probes) :
      LET p == probes[i]
          gets == {j \in 1..Len(fetchLog) : fetchLog[j].provider = p}
      IN IF p \in KeyBased
         THEN /\ gets = {}
              /\ (detected = p) <=> (settings.apiKeys[p] # "")
         ELSE /\ Cardinality(gets) = 1
              /\ \A j \in gets :
                   /\ fetchLog[j].url =
                        <<settings.hosts[p],
                          IF p = "ollama" THEN "/api/tags" ELSE "/v1/models">>
                   /\ Settled(j) =>
                        ((detected = p) <=> (fetchLog[j].outcome = "ok"))

C10_Witness ==
  /\ Auto
  /\ probes = <<"ollama", "lmstudio", "openai", "openrouter">>
  /\ fetchLog[1].outcome = "status"
  /\ fetchLog[2].outcome = "error"
  /\ detected = "openrouter"
  /\ settings.apiKeys["openai"] = ""

\* --------------------------------------------- the output file, as read back
\* a header starts at position i of the text: "## " at the start of a line
HeaderAt(c, i) ==
  /\ i + 2 <= Len(c)
  /\ c[i] = "#" /\ c[i + 1] = "#" /\ c[i + 2] = " "
  /\ (i = 1 \/ c[i - 1] = "\n")

HeaderPositions(c) == {i \in 1..Len(c) : HeaderAt(c, i)}

KthHeader(c, k) ==
  CHOOSE i \in HeaderPositions(c) :
    Cardinality({j \in HeaderPositions(c) : j < i}) = k - 1

\* the k-th entry of the text: from its header up to the next header
Segment(c, k) ==
  SubSeq(c, KthHeader(c, k),
         IF k < Cardinality(HeaderPositions(c))
         THEN KthHeader(c, k + 1) - 1 ELSE Len(c))

IsDate(d) ==
  /\ Len(d) = 10
  /\ d[5] = "-" /\ d[8] = "-"
  /\ \A i \in {1, 2, 3, 4, 6, 7, 9, 10} :
       \E n \in 1..10 : d[i] = DigitChars[n]

IsSuffix(old, new) ==
  /\ Len(old) <= Len(new)
  /\ SubSeq(new, Len(new) - Len(old) + 1, Len(new)) = old

\* the entry format of the documentation: "## <date>\n<text>\n\n"
DocumentedEntry(e) ==
  <<"#", "#", " ">> \o e.date \o <<"\n">> \o e.text \o <<"\n", "\n">>

RECURSIVE NewestFirst(_)
NewestFirst(entries) ==
  IF entries = <<>> THEN <<>>
  ELSE DocumentedEntry(entries[Len(entries)])
         \o NewestFirst(SubSeq(entries, 1, Len(entries) - 1))

\* C14: after any number of writes to a file that was absent or empty, the
\* file has exactly one "## YYYY-MM-DD" header per written entry, and the
\* k-th entry of the file is the k-th most recently written one (its header
\* line followed by its text).
C14_NewestFirstOneHeaderEach ==
  LET c == outFile.text
      n == Len(written)
  IN /\ Cardinality(HeaderPositions(c)) = n
     /\ \A k \in 1..n :
          LET e == written[n + 1 - k]
          IN /\ IsDate(e.date)
             /\ Trim(Segment(c, k)) =
                  Trim(<<"#", "#", " ">> \o e.date \o <<"\n">> \o e.text)

C14_Witness ==
  /\ Len(written) = 3
  /\ written[1].text = <<"a">>
  /\ written[2].text = <<"a", "\n", "a">>
  /\ written[3].text = <<"a", "a">>
  /\ written[1].date # written[3].date
  /\ SubSeq(outFile.text, 1, 16) =
       <<"#", "#", " ">> \o written[3].date \o <<"\n", "a", "a">>

\* C15 (as claimed): after n >= 1 writes of non-empty trimmed texts to a
\* file that was absent or empty, the file is the n entries
\* "## <date>\n<text>\n\n" concatenated newest first, the oldest entry
\* included with its blank-line separator.
C15_EveryEntryHasSeparator ==
  (/\ written # <<>>
   /\ \A i \in 1..Len(written) : written[i].text # <<>>) =>
     outFile.text = NewestFirst(written)

\* C16: a write to a file with non-empty content keeps that content, byte
\* for byte, as the end of the new content, after the new entry.
C16_WriteKeepsPreviousContent ==
  [][(outFile.exists /\ outFile.text # <<>> /\ written' # written) =>
       /\ IsSuffix(outFile.text, outFile'.text)
       /\ Len(outFile'.text) > Len(outFile.text)
       /\ outFile'.exists]_vars

C16_Witness ==
  /\ Len(written) = 2
  /\ written[1].text = <<"a", " ", "a">>
  /\ written[2].text = <<>>
  /\ IsSuffix(<<"\n", "a", " ", "a">>, outFile.text)

\* -------------------------------------------------- applyOverrides, claims
\* the argument's value before and after the call, and the returned value
OvInputBefore == Deref(ov.heapBefore, ov.config)
OvInputAfter == Deref(heap, ov.config)
OvReturned == Deref(heap, ov.merged)

\* the provider in effect once the provider override is applied
OvEffectiveProvider ==
  IF ov.overrides.provider \notin {NULL, ""}
  THEN ov.overrides.provider ELSE OvInputBefore.provider

\* C17 (as claimed): after applyOverrides the settings object that was
\* passed in, its models map included, has the value it had before the
\* call, whatever the overrides.
C17_InputNotMutated ==
  ov.state = "done" => OvInputAfter = OvInputBefore

\* C18: when the provider in effect after the provider override is auto, a
\* model override changes nothing: the returned models map is the input's.
C18_ModelIgnoredInAuto ==
  (/\ ov.state = "done"
   /\ ov.overrides.model # NULL
   /\ OvEffectiveProvider = "auto") =>
     /\ OvReturned.models = OvInputBefore.models
     /\ OvReturned.provider = "auto"

C18_Witness ==
  /\ ov.state = "done"
  /\ ov.overrides = [provider |-> "auto", model |-> "custom-model"]
  /\ OvInputBefore.provider = "ollama"
  /\ OvReturned.models["ollama"] = "mistral"

\* C19 (as claimed): with a concrete provider p and any model m overridden,
\* the returned settings have provider p and models[p] = m and are the
\* input's otherwise; with the provider alone, the models map is the input's.
C19_ProviderAndModelApplied ==
  (ov.state = "done" /\ ov.overrides.provider \in Provider) =>
     LET p == ov.overrides.provider
         m == ov.overrides.model
     IN /\ OvReturned.provider = p
        /\ OvReturned.hosts = OvInputBefore.hosts
        /\ OvReturned.apiKeys = OvInputBefore.apiKeys
        /\ OvReturned.outputFile = OvInputBefore.outputFile
        /\ OvReturned.systemPrompt = OvInputBefore.systemPrompt
        /\ \A q \in Provider \ {p} :
             OvReturned.models[q] = OvInputBefore.models[q]
        /\ OvReturned.models[p] =
             (IF m # NULL THEN m ELSE OvInputBefore.models[p])

\* C19 (amended): the same for a non-empty model m; an empty model string,
\* like an absent one, leaves the models map as the input's.
C19_ProviderAndNonEmptyModelApplied ==
  (ov.state = "done" /\ ov.overrides.provider \in Provider) =>
     LET p == ov.overrides.provider
         m == ov.overrides.model
     IN /\ OvReturned.provider = p
        /\ OvReturned.hosts = OvInputBefore.hosts
        /\ OvReturned.apiKeys = OvInputBefore.apiKeys
        /\ OvReturned.outputFile = OvInputBefore.outputFile
        /\ OvReturned.systemPrompt = OvInputBefore.systemPrompt
        /\ \A q \in Provider \ {p} :
             OvReturned.models[q] = OvInputBefore.models[q]
        /\ OvReturned.models[p] =
             (IF m \notin {NULL, ""} THEN m ELSE OvInputBefore.models[p])

C19_Witness ==
  /\ ov.state = "done"
  /\ ov.overrides = [provider |-> "ollama", model |-> "custom-model"]
  /\ OvInputBefore.provider = "openai"
  /\ OvInputBefore.models["ollama"] = "mistral"
  /\ OvReturned.provider = "ollama"
  /\ OvReturned.models["ollama"] = "custom-model"

\* ------------------------------------------------ the main command, claims
NoSurroundingWhitespace(t) ==
  t = <<>> \/ (t[1] \notin {" ", "\n"} /\ t[Len(t)] \notin {" ", "\n"})

\* r is raw without the whitespace at its two ends
IsTrimOf(r, raw) ==
  /\ NoSurroundingWhitespace(r)
  /\ \E i \in 0..Len(raw) :
       /\ i + Len(r) <= Len(raw)
       /\ SubSeq(raw, i + 1, i + Len(r)) = r
       /\ \A j \in (1..i) \cup ((i + Len(r) + 1)..Len(raw)) :
            raw[j] \in {" ", "\n"}

MainSucceeded == mpc = "exited" /\ pc = "returned"
MainFailed == mpc = "exited" /\ pc = "thrown"

\* C11: the text refineIntention returns is the provider's text without the
\* whitespace at its ends, and the entry the main command then writes holds
\* exactly that text after its header line.
C11_WrittenTextIsTrimmedText ==
  MainSucceeded =>
    LET raw == genLog[Len(genLog)].outcome.text
        r == result.refined
        e == written[Len(written)]
        h == <<"#", "#", " ">> \o e.date
        old == atStart.outFile.text
    IN /\ IsTrimOf(r, raw)
       /\ e.text = r
       /\ (old = <<>> /\ r # <<>>) => outFile.text = h \o <<"\n">> \o r
       /\ (old = <<>> /\ r = <<>>) => outFile.text = h
       /\ old # <<>> =>
            outFile.text = h \o <<"\n">> \o r \o <<"\n", "\n">> \o old

C11_Witness ==
  /\ MainSucceeded
  /\ genLog[Len(genLog)].outcome.text = <<" ", "a", "\n">>
  /\ result.refined = <<"a">>
  /\ atStart.outFile.text # <<>>
  /\ SubSeq(outFile.text, 14, 17) = <<"\n", "a", "\n", "\n">>

\* C12: the output file differs from what it was when the process started
\* only once refineIntention has returned and the command has ended; after
\* a failed refineIntention it is exactly as it was.
C12_NoWriteOnFailure ==
  /\ (mpc # "none" /\ outFile # atStart.outFile) =>
       (MainSucceeded /\ exitCode = 0)
  /\ MainFailed => outFile = atStart.outFile

C12_Witness ==
  /\ MainFailed
  /\ runs = 2
  /\ Contains(error, "No LLM provider available")
  /\ outFile.text # <<>>
  /\ outFile = atStart.outFile

\* C13: a run that got an intention ends with exit status 0 when
\* refineIntention returned and the entry was written, and with a non-zero
\* status when refineIntention threw.
C13_ExitStatus ==
  (mpc = "exited" /\ pc # "idle") =>
     /\ pc \in {"returned", "thrown"}
     /\ pc = "returned" => (exitCode = 0 /\ outFile # atStart.outFile)
     /\ pc = "thrown" => exitCode > 0

C13_Witness ==
  /\ MainFailed
  /\ exitCode = 1
  /\ error = <<"OpenAI", " error: ", "API error">>

\* the provider and the models the settings file holds, as loadConfig
\* reads them
PersistedProvider ==
  IF settingsFile.valid /\ "provider" \in DOMAIN settingsFile.content
  THEN settingsFile.content.provider ELSE "auto"

PersistedModels ==
  IF settingsFile.valid /\ "models" \in DOMAIN settingsFile.content
  THEN settingsFile.content.models
  ELSE [p \in {"ollama", "lmstudio", "openai", "openrouter"} |->
          PROVIDER_META[p].defaultModel]

\* C20: a run with runtime overrides that found a settings file leaves that
\* file as it was, at every point of the run; and a run without overrides
\* passes the provider and the models of the settings file to
\* refineIntention, also after a run that had overrides.
C20_OverridesAreNotPersisted ==
  /\ (/\ mpc # "none"
      /\ atStart.settingsFile.exists
      /\ hasOverrides(OverridesOf(flags))) =>
        settingsFile = atStart.settingsFile
  /\ (/\ mpc \in {"refining", "exited"}
      /\ pc # "idle"
      /\ atStart.settingsFile.exists
      /\ ~hasOverrides(OverridesOf(flags))) =>
        /\ settings.provider = PersistedProvider
        /\ settings.models = PersistedModels

C20_Witness ==
  /\ runs = 2
  /\ everOverridden
  /\ flags = NoFlags
  /\ MainSucceeded
  /\ settingsFile.exists /\ settingsFile.valid
  /\ settingsFile.content.provider = "openai"
  /\ genLog[1].request.provider = "openai"
  /\ genLog[1].request.model = "gpt-4o"

\* --------------------------------------------- the system instruction
\* C28: every generation request carries settings.systemPrompt as its system
\* instruction whenever systemPrompt is not null, the empty string included,
\* and the built-in default instruction only when systemPrompt is null.
C28_SystemPromptSetIsSent ==
  \A i \in 1..Len(genLog) :
     genLog[i].request.system =
       (IF settings.systemPrompt # NULL THEN settings.systemPrompt
        ELSE DEFAULT_SYSTEM_PROMPT)

\* ------------------------------- the main command: blank input, the wizard
OnlyWhitespace(t) == \A i \in 1..Len(t) : t[i] \in {" ", "\n"}

\* C24: a run whose answer at the prompt is empty or whitespace only issues
\* no detection probe and no generation request, leaves the output file as
\* it was, and ends normally with exit status 0.
C24_BlankInputIsNoOp ==
  (mpc \in {"refining", "exited"} /\ OnlyWhitespace(answer)) =>
     /\ mpc = "exited"
     /\ pc = "idle"
     /\ probes = <<>>
     /\ fetchLog = <<>>
     /\ genLog = <<>>
     /\ error = <<>>
     /\ outFile = atStart.outFile
     /\ exitCode = 0

C24_Witness ==
  /\ mpc = "exited"
  /\ answer = <<" ", "\n">>
  /\ runs = 2
  /\ outFile.text # <<>>
  /\ outFile = atStart.outFile
  /\ exitCode = 0

\* runSetup() completed in the running process
SetupRan == \E i \in 1..Len(setups) : setups[i] = runs

\* C25: a run has gone through the setup wizard exactly when the settings
\* file did not exist when it started, and it has done so by the time the
\* prompt is shown; a wizard that completed has saved a settings file, and a
\* run that starts with that file loads it and does not run the wizard.
C25_WizardExactlyOnFirstRun ==
  /\ mpc = "start" => ~SetupRan
  /\ mpc \in {"prompt", "refining", "exited"} =>
       (SetupRan <=> ~atStart.settingsFile.exists)
  /\ (mpc = "prompt" /\ ~atStart.settingsFile.exists) =>
       (SetupRan /\ answer = <<>> /\ pc = "idle")
  /\ SetupRan => (settingsFile.exists /\ settingsFile.valid)
  /\ \A i \in 1..Len(setups) :
       \A r \in (setups[i] + 1)..runs :
          \A j \in 1..Len(setups) : setups[j] # r
  /\ (setups # <<>> /\ ~SetupRan /\ mpc \in {"prompt", "refining", "exited"}
        /\ ~hasOverrides(OverridesOf(flags))) =>
       Deref(heap, config) = settingsFile.content

C25_Witness ==
  /\ runs = 2
  /\ setups = <<1>>
  /\ mpc = "refining"
  /\ flags = NoFlags
  /\ settingsFile.content.provider = "openai"
  /\ settingsFile.content.models["openai"] = "custom-model"
  /\ settings.provider = "openai"
  /\ settings.models["openai"] = "custom-model"

\* C30: the compiled-in default settings keep their values in every process:
\* whatever loadConfig, applyOverrides and the setup wizard have done, a
\* loadConfig on a missing or on a malformed settings file returns the
\* original default models, hosts and API keys.
C30_DefaultsNeverChange ==
  \A f \in {AbsentSettingsFile,
            [exists |-> TRUE, valid |-> FALSE, content |-> <<>>]} :
     LET l == loadConfig(heap, f)
         v == Deref(l.heap, l.config)
     IN /\ v.models = DEFAULT_SETTINGS.models
        /\ v.hosts = DEFAULT_SETTINGS.hosts
        /\ v.apiKeys = DEFAULT_SETTINGS.apiKeys

\* ------------------------------------------ saveConfig and loadConfig
TopLevelFields ==
  {"provider", "models", "hosts", "apiKeys", "outputFile", "systemPrompt"}

\* s merged over the compiled-in defaults, field by field at the top level
MergedOverDefaults(s) ==
  [k \in TopLevelFields |-> IF k \in DOMAIN s THEN s[k] ELSE DEFAULT_SETTINGS[k]]

\* C21: loadConfig() right after saveConfig(s) returns a value deep-equal to
\* s merged over the compiled-in defaults, which is s itself when s has
\* every top-level field.
C21_SaveLoadRoundTrip ==
  (cfg.op = "load" /\ cfg.afterSave) =>
     /\ cfg.returned = MergedOverDefaults(cfg.arg)
     /\ DOMAIN cfg.arg = TopLevelFields => cfg.returned = cfg.arg

C21_Witness ==
  /\ cfg.op = "load"
  /\ cfg.afterSave
  /\ cfg.arg = PartialSettings
  /\ cfg.returned.provider = "ollama"
  /\ cfg.returned.outputFile = "/custom/path.txt"
  /\ cfg.returned.systemPrompt = NULL
  /\ cfg.returned.models = DEFAULT_SETTINGS.models

\* C22: loadConfig on a settings file that is missing or is not valid JSON
\* returns the compiled-in defaults in full (provider auto, the default
\* model of every provider, the default hosts, empty API keys, outputFile
\* "./today.txt", systemPrompt null) and leaves the file as it was.
C22_MissingOrMalformedGivesDefaults ==
  (cfg.op = "load" /\ (~cfg.fileBefore.exists \/ ~cfg.fileBefore.valid)) =>
     /\ cfg.returned.provider = "auto"
     /\ cfg.returned.models =
          [p \in Provider |-> PROVIDER_META[p].defaultModel]
     /\ cfg.returned.hosts =
          [p \in {"ollama", "lmstudio"} |-> PROVIDER_META[p].defaultHost]
     /\ cfg.returned.apiKeys = [p \in {"openai", "openrouter"} |-> ""]
     /\ cfg.returned.outputFile = "./today.txt"
     /\ cfg.returned.systemPrompt = NULL
     /\ settingsFile = cfg.fileBefore

C22_Witness ==
  /\ cfg.op = "load"
  /\ cfg.fileBefore.exists
  /\ ~cfg.fileBefore.valid
  /\ settingsFile = cfg.fileBefore
  /\ cfg.returned.provider = "auto"

\* a Settings value with an entry for every provider it must have one for
ValidSettings(v) ==
  /\ DOMAIN v = TopLevelFields
  /\ v.provider \in ProviderOrAuto
  /\ \A p \in Provider : p \in DOMAIN v.models /\ v.models[p] # NULL
  /\ \A p \in HostBased : p \in DOMAIN v.hosts /\ v.hosts[p] # NULL
  /\ \A p \in KeyBased : p \in DOMAIN v.apiKeys /\ v.apiKeys[p] # NULL

\* C23: loadConfig on a settings file that parses as a JSON object returns
\* valid settings: a model for every provider, a host for every host-based
\* provider and an API key string for every key-based provider, also when
\* the file's models, hosts or apiKeys object lists only some providers.
C23_LoadedSettingsAreValid ==
  (cfg.op = "load" /\ cfg.fileBefore.exists /\ cfg.fileBefore.valid) =>
     ValidSettings(cfg.returned)

\* ------------------------------------------------- the model fetchers
\* the response carries the list the provider's listing function reads
HasExpectedList(provider, r) ==
  /\ r.kind = "ok"
  /\ r.json
  /\ IF provider = "ollama" THEN r.hasModels ELSE r.hasData

\* C26: a listing function never throws; after a network error, an aborted
\* request, a status that is not a success or a body without the expected
\* list it has returned the empty list.
C26_ListingNeverThrows ==
  mf.state = "done" =>
     /\ ~mf.threw
     /\ (mf.requests # <<>> /\ ~HasExpectedList(mf.provider, mf.response)) =>
          mf.returned = <<>>

C26_Witness ==
  /\ mf.state = "done"
  /\ mf.entry = "direct"
  /\ mf.provider = "ollama"
  /\ mf.requests # <<>>
  /\ mf.response.kind = "ok"
  /\ mf.response.json
  /\ ~mf.response.hasModels
  /\ mf.returned = <<>>

\* the listing endpoint of each provider
OwnEndpoint(provider, s) ==
  CASE provider = "ollama" -> <<s.hosts["ollama"], "/api/tags">>
    [] provider = "lmstudio" -> <<s.hosts["lmstudio"], "/v1/models">>
    [] provider = "openai" -> <<"https://api.openai.com/v1/models">>
    [] provider = "openrouter" -> <<"https://openrouter.ai/api/v1/models">>

\* C27: fetchModelsForProvider for openai or openrouter with an empty API
\* key in the settings returns the empty list and issues no request; for
\* every provider it issues at most one request, to that provider's own
\* listing endpoint.
C27_NoKeyNoRequest ==
  (mf.state # "none" /\ mf.entry = "dispatch") =>
     /\ (mf.provider \in KeyBased /\ mf.settings.apiKeys[mf.provider] = "") =>
          (mf.state = "done" /\ mf.requests = <<>> /\ mf.returned = <<>>
             /\ ~mf.threw)
     /\ Len(mf.requests) <= 1
     /\ \A i \in 1..Len(mf.requests) :
          mf.requests[i].url = OwnEndpoint(mf.provider, mf.settings)

C27_Witness ==
  /\ mf.state = "done"
  /\ mf.entry = "dispatch"
  /\ mf.provider = "openrouter"
  /\ mf.settings.apiKeys = [openai |-> "sk-test", openrouter |-> ""]
  /\ mf.requests = <<>>
  /\ mf.returned = <<>>

\* ------------------------------------------ concurrent writeTodayFile
\* the text c has an entry with the header and the text of invocation wr
HasEntryOf(c, wr) ==
  \E k \in 1..Cardinality(HeaderPositions(c)) :
     Trim(Segment(c, k)) =
       Trim(<<"#", "#", " ">> \o formatDate(wr.now) \o <<"\n">> \o wr.text)

BothWritten == conc.state = "running" /\ Len(conc.order) = 2

\* C29: when two invocations of writeTodayFile on one file have both
\* finished, the file ends with the whole previous content and holds the
\* entry of the invocation that wrote last; when both had read before
\* either wrote, it holds that entry only and not the entry of the other
\* invocation.
C29_LastWriterWins ==
  BothWritten =>
     LET c == outFile.text
         first == conc.w[conc.order[1]]
         last == conc.w[conc.order[2]]
     IN /\ IsSuffix(conc.before.text, c)
        /\ HasEntryOf(c, last)
        /\ conc.bothRead =>
             /\ ~HasEntryOf(c, first)
             /\ Cardinality(HeaderPositions(c)) =
                  Cardinality(HeaderPositions(conc.before.text)) + 1

C29_Witness ==
  /\ BothWritten
  /\ conc.bothRead
  /\ conc.order = <<2, 1>>
  /\ conc.before.text # <<>>
  /\ conc.w[1].text = <<"a">>
  /\ HasEntryOf(outFile.text, conc.w[1])
  /\ ~HasEntryOf(outFile.text, conc.w[2])
  /\ IsSuffix(conc.before.text, outFile.text)

====
